---- MODULE Spec2Model ----
(***************************************************************************)
(* Model of the tracing-build-script crate: BuildScriptWriter, the writer  *)
(* that forwards WARN/ERROR events to stdout as `cargo::warning=` lines    *)
(* and every other event to stderr, and BuildScriptMakeWriter, which picks *)
(* the writer for an event.                                                *)
(*                                                                         *)
(* A writer is made per event, written to and dropped.  In Spec and SpecOk  *)
(* one thread logs, so one writer is alive at a time; in SpecConc every    *)
(* writer has its own thread.  io::Stdout is a shared handle guarded by a  *)
(* lock; write_all holds the lock from line 87 to its return, so its       *)
(* underlying writes are modelled one step at a time while the lock is     *)
(* held.  An underlying write either accepts all of its bytes or fails and *)
(* accepts none (the buffers of the model are far smaller than the buffer  *)
(* of std's stdout).                                                       *)
(***************************************************************************)
EXTENDS Integers, Sequences, FiniteSets, TLC

\* ------------------------------------------------------------------ bounds

\* A build script that logs from one thread, one writer alive at a time (Spec):
\* input bytes handed to write_all over a behaviour,
MaxBytes == 3
\* write_all calls over a behaviour,
MaxCalls == 3
\* underlying I/O operations that fail over a behaviour.
MaxFails == 1

\* The same script on streams that never fail (SpecOk): input bytes and calls.
OkBytes == 4
OkCalls == 3

\* A build script that logs from two threads (SpecConc): bytes, calls, failures.
ConcBytes == 2
ConcCalls == 2
ConcFails == 1

\* Two threads whose calls are run to their end (SpecLive): bytes, calls, failures.
LiveBytes == 2
LiveCalls == 2
LiveFails == 1

\* The one-thread script logging text with other control and punctuation bytes, on
\* streams that never fail (SpecText): input bytes and calls.
TextBytes == 3
TextCalls == 2

\* ------------------------------------------------------------------ bytes

LF == 10
CR == 13
\* The bytes a buffer is drawn from: the two line-break bytes and 'a'.
InputBytes == {LF, CR, 97}
\* Text with NUL, tab, double-quote and backslash beside the line breaks.
TextInput == {LF, CR, 0, 9, 34, 92}
\* b"cargo::warning="
MARKER == <<99, 97, 114, 103, 111, 58, 58, 119, 97, 114, 110, 105, 110, 103, 61>>

\* The writer instances, numbered in the order they are made.
Writers == {1, 2}
\* tracing::Level
Levels == {"TRACE", "DEBUG", "INFO", "WARN", "ERROR"}


\* ErrorAndWarnState
StInit == [tag |-> "Init"]
StNormal == [tag |-> "Normal"]
LastCharWasSpecial(ch) == [tag |-> "LastCharWasSpecial", ch |-> ch]
\* The state field of a writer that has none (not created, or Informational).
NoState == [tag |-> "None"]

VARIABLES
  kind,      \* kind[w]: "none" | "Informational" | "ErrorsAndWarnings"
  last,      \* the call that returned in the last step: its operation, writer, argument, result
  state,     \* state[w]: ErrorAndWarnState of an ErrorsAndWarnings writer
  pc,        \* pc[w]: "new" | "idle" | "prefix" | "first" | "loop" | "run" | "dropped"
  arg,       \* arg[w]: the buffer the running write_all was called with
  buf,       \* buf[w]: the local slice `buf` of the running write_all
  lsc,       \* lsc[w]: the local `last_special_char` of the running write_all
  lock,      \* the thread holding the stdout lock, 0 when free
  stdout,    \* the bytes stdout accepted, in order
  outBy,     \* outBy[i]: the writer that wrote stdout[i]
  stderr,    \* the bytes stderr accepted, in order
  errBy,     \* errBy[i]: the writer that wrote stderr[i]
  consumed,  \* consumed[w]: concatenation of the buffers of the calls that returned Ok
  calls,     \* calls[w]: number of write_all calls made on w
  offered,   \* offered[w]: number of bytes in the buffers of those calls
  clean,     \* clean[w]: every write_all on w so far had a non-empty buffer and returned
             \*           Ok, and the write of its drop was accepted
  span,      \* span[w]: <<stdout length when the last call took the lock, after its last write>>
  leftBytes, \* input bytes that may still be handed to write_all
  leftCalls, \* write_all calls that may still be made
  leftFails, \* underlying I/O operations that may still fail
  alphabet   \* the bytes the script's messages are made of

vars == <<kind, last, state, pc, arg, buf, lsc, lock, stdout, outBy, stderr,
          errBy, consumed, calls, offered, clean, span, leftBytes, leftCalls, leftFails,
          alphabet>>

\* ------------------------------------------------------------------ helpers

\* All buffers of at most n bytes of the alphabet.
Buffers(n) == UNION {[1..k -> alphabet] : k \in 0..n}

\* fn char_is_special
char_is_special(ch) == ch = LF \/ ch = CR

\* Mutant: the line break is handed back as it is.
escape_special_raw(ch) ==
  CASE ch = LF -> <<LF>>
    [] ch = CR -> <<CR>>

\* Mutant: both line breaks escaped as backslash+'n'.
escape_special_same(ch) ==
  CASE ch = LF -> <<92, 110>>
    [] ch = CR -> <<92, 110>>

\* fn escape_special (unreachable!() for any other byte: no value)
escape_special(ch) ==
  CASE ch = LF -> <<92, 110>>
    [] ch = CR -> <<92, 114>>

\* buf.iter().position(|ch| char_is_special(*ch)): 0-based index, or -1 for None
position(b) ==
  IF \E i \in 1..Len(b) : char_is_special(b[i])
  THEN (CHOOSE i \in 1..Len(b) :
          /\ char_is_special(b[i])
          /\ \A j \in 1..(i - 1) : ~char_is_special(b[j])) - 1
  ELSE -1

\* &buf[..n]
Take(b, n) == SubSeq(b, 1, n)
\* Mutant: the slice after a special byte starts one byte too late.
Skip_one_more(b, n) == SubSeq(b, n + 2, Len(b))

\* &buf[n..]
Skip(b, n) == SubSeq(b, n + 1, Len(b))

\* What std puts under the two streams: stdout is line-buffered with a buffer of
\* 1024 bytes (a slice that fits is copied into it whole, a longer one goes to the
\* descriptor as it is); stderr has no buffer.
StdoutBufferSize == 1024
StderrBufferSize == 0

\* Outcomes of one underlying write_all of `data`: TRUE when all of it is accepted.
\* A write of no bytes has nothing to fail on.
Outcomes(data) == IF data # <<>> /\ leftFails > 0 THEN {TRUE, FALSE} ELSE {TRUE}

\* How many bytes of `data` the stream may have taken when its write_all returns Err:
\* none of a slice that fits a buffer of `size` bytes, any shorter part of another one.
Refused(data, size) == IF Len(data) >= size THEN 0..(Len(data) - 1) ELSE {0}

\* Mutant: the held-back byte is forgotten when the next call comes.
prefix_drops_held(st) ==
  CASE st.tag = "Init" -> MARKER
    [] st.tag = "LastCharWasSpecial" -> <<>>
    [] st.tag = "Normal" -> <<>>

\* Mutant: the held-back byte is written as it is when more bytes follow.
prefix_raw(st) ==
  CASE st.tag = "Init" -> MARKER
    [] st.tag = "LastCharWasSpecial" -> <<st.ch>>
    [] st.tag = "Normal" -> <<>>

\* lines 90-98: what write_all writes first, depending on the state
prefix(st) ==
  CASE st.tag = "Init" -> MARKER
    [] st.tag = "LastCharWasSpecial" -> escape_special(st.ch)
    [] st.tag = "Normal" -> <<>>

\* Mutant: a call that does not end in a special byte leaves the state Init.
last_char_init(b) ==
  IF Len(b) > 0 /\ char_is_special(b[Len(b)])
  THEN [state |-> LastCharWasSpecial(b[Len(b)]), buf |-> Take(b, Len(b) - 1)]
  ELSE [state |-> StInit, buf |-> b]

\* Mutant: no byte is held back.
last_char_never_held(b) == [state |-> StNormal, buf |-> b]

\* Mutant: the last byte is held back whatever it is.
last_char_any(b) ==
  IF Len(b) > 0
  THEN [state |-> LastCharWasSpecial(b[Len(b)]), buf |-> Take(b, Len(b) - 1)]
  ELSE [state |-> StNormal, buf |-> b]

\* Mutant: the special last byte is noted in the state but left in the slice.
last_char_not_trimmed(b) ==
  IF Len(b) > 0 /\ char_is_special(b[Len(b)])
  THEN [state |-> LastCharWasSpecial(b[Len(b)]), buf |-> b]
  ELSE [state |-> StNormal, buf |-> b]

\* lines 114-122: the new state and the slice left once a special last byte is held back
last_char(b) ==
  IF Len(b) > 0 /\ char_is_special(b[Len(b)])
  THEN [state |-> LastCharWasSpecial(b[Len(b)]), buf |-> Take(b, Len(b) - 1)]
  ELSE [state |-> StNormal, buf |-> b]

\* Mutant: drop escapes the held-back byte.
drop_write_escaped(ch) == escape_special(ch)

\* line 63, &[*ch]: what drop writes for the held-back byte
drop_write(ch) == <<ch>>

\* Mutant: the Informational arm prepends the marker.
informational_write_marked(b) == MARKER \o b

\* line 83: what the Informational arm hands to stderr for its buffer
informational_write(b) == b

\* BuildScriptWriter::informational
informational == [kind |-> "Informational", state |-> NoState]
\* BuildScriptWriter::errors_and_warnings
errors_and_warnings == [kind |-> "ErrorsAndWarnings", state |-> StInit]

\* Mutant: only ERROR gets an errors_and_warnings writer.
is_error_only(lvl) == lvl = "ERROR"

\* line 187: the levels that get an errors_and_warnings writer
is_error_or_warn(lvl) == lvl = "ERROR" \/ lvl = "WARN"

\* Mutant: the lock excludes nobody.
lock_always_granted(w) == TRUE

\* line 87, writer.lock(): the lock is granted when no thread holds it
lock_granted(w) == lock = 0

\* The value of `last` after a step in which no call returned.
NoCall == [op |-> "none", w |-> 0, level |-> "none", ok |-> TRUE]
\* make_writer_for(level) / make_writer() returned writer w.
Made(op, w, lvl) == [op |-> op, w |-> w, level |-> lvl, ok |-> TRUE]
\* write_all / flush on w returned Ok(()) (ok) or Err; drop on w ended.
Returned(op, w, ok) == [op |-> op, w |-> w, level |-> "none", ok |-> ok]

\* ------------------------------------------------------------------ state

Start(bytes, ncalls, fails, input) ==
  /\ kind = [w \in Writers |-> "none"]
  /\ last = NoCall
  /\ state = [w \in Writers |-> NoState]
  /\ pc = [w \in Writers |-> "new"]
  /\ arg = [w \in Writers |-> <<>>]
  /\ buf = [w \in Writers |-> <<>>]
  /\ lsc = [w \in Writers |-> 0]
  /\ lock = 0
  /\ stdout = <<>>
  /\ outBy = <<>>
  /\ stderr = <<>>
  /\ errBy = <<>>
  /\ consumed = [w \in Writers |-> <<>>]
  /\ calls = [w \in Writers |-> 0]
  /\ offered = [w \in Writers |-> 0]
  /\ clean = [w \in Writers |-> TRUE]
  /\ span = [w \in Writers |-> <<0, 0>>]
  /\ leftBytes = bytes
  /\ leftCalls = ncalls
  /\ leftFails = fails
  /\ alphabet = input

Init == Start(MaxBytes, MaxCalls, MaxFails, InputBytes)
InitOk == Start(OkBytes, OkCalls, 0, InputBytes)
InitConc == Start(ConcBytes, ConcCalls, ConcFails, InputBytes)
InitLive == Start(LiveBytes, LiveCalls, LiveFails, InputBytes)
InitText == Start(TextBytes, TextCalls, 0, TextInput)

\* The variables that only change when a call is made.
callVars == <<calls, offered, leftBytes, leftCalls>>
errVars == <<stderr, errBy>>

\* w writes `data` to stdout.
Emit(w, data) ==
  /\ stdout' = stdout \o data
  /\ outBy' = outBy \o [i \in 1..Len(data) |-> w]

\* w writes `data` to stdout inside write_all.
EmitInCall(w, data) ==
  /\ Emit(w, data)
  /\ span' = [span EXCEPT ![w][2] = Len(stdout) + Len(data)]

\* One more failure when ~ok.
Count(ok) == leftFails' = IF ok THEN leftFails ELSE leftFails - 1

\* Mutant: the lock guard outlives the call that returns Err.
Return_keeps_lock(w, ok) ==
  /\ pc' = [pc EXCEPT ![w] = "idle"]
  /\ lock' = IF ok THEN 0 ELSE w
  /\ last' = Returned("write_all", w, ok)
  /\ consumed' = [consumed EXCEPT ![w] = IF ok THEN @ \o arg[w] ELSE @]
  /\ clean' = [clean EXCEPT ![w] = @ /\ ok /\ arg[w] # <<>>]
  /\ arg' = [arg EXCEPT ![w] = <<>>]
  /\ buf' = [buf EXCEPT ![w] = <<>>]
  /\ lsc' = [lsc EXCEPT ![w] = 0]

\* write_all returns on w: the lock guard goes out of scope.
Return(w, ok) ==
  /\ pc' = [pc EXCEPT ![w] = "idle"]
  /\ lock' = 0
  /\ last' = Returned("write_all", w, ok)
  /\ consumed' = [consumed EXCEPT ![w] = IF ok THEN @ \o arg[w] ELSE @]
  /\ clean' = [clean EXCEPT ![w] = @ /\ ok /\ arg[w] # <<>>]
  /\ arg' = [arg EXCEPT ![w] = <<>>]
  /\ buf' = [buf EXCEPT ![w] = <<>>]
  /\ lsc' = [lsc EXCEPT ![w] = 0]

\* ------------------------------------------------------------------ actions

\* BuildScriptMakeWriter::make_writer_for
make_writer_for(w, lvl) ==
  /\ pc[w] = "new"
  /\ \A v \in Writers : v < w => pc[v] # "new"
  /\ LET writer == IF is_error_or_warn(lvl) THEN errors_and_warnings ELSE informational
     IN /\ kind' = [kind EXCEPT ![w] = writer.kind]
        /\ state' = [state EXCEPT ![w] = writer.state]
  /\ last' = Made("make_writer_for", w, lvl)
  /\ pc' = [pc EXCEPT ![w] = "idle"]
  /\ UNCHANGED <<alphabet, arg, buf, lsc, lock, stdout, outBy, stderr, errBy, consumed, clean,
                 span, leftFails, callVars>>

\* BuildScriptMakeWriter::make_writer
make_writer(w) ==
  /\ pc[w] = "new"
  /\ \A v \in Writers : v < w => pc[v] # "new"
  /\ kind' = [kind EXCEPT ![w] = informational.kind]
  /\ state' = [state EXCEPT ![w] = informational.state]
  /\ last' = Made("make_writer", w, "none")
  /\ pc' = [pc EXCEPT ![w] = "idle"]
  /\ UNCHANGED <<alphabet, arg, buf, lsc, lock, stdout, outBy, stderr, errBy, consumed, clean,
                 span, leftFails, callVars>>

\* A call of write_all (or of write, which forwards to it) with buffer b is made on w.
Called(w, b) ==
  /\ leftCalls > 0
  /\ Len(b) <= leftBytes
  /\ leftCalls' = leftCalls - 1
  /\ leftBytes' = leftBytes - Len(b)
  /\ calls' = [calls EXCEPT ![w] = @ + 1]
  /\ offered' = [offered EXCEPT ![w] = @ + Len(b)]

\* write_all, Informational arm (line 83): stderr's own write_all
write_all_informational(w, b, ok) ==
  /\ pc[w] = "idle"
  /\ kind[w] = "Informational"
  /\ Called(w, b)
  /\ \E k \in (IF ok THEN {Len(informational_write(b))}
                      ELSE Refused(informational_write(b), StderrBufferSize)) :
       /\ stderr' = stderr \o Take(informational_write(b), k)
       /\ errBy' = errBy \o [i \in 1..k |-> w]
  /\ Count(ok)
  /\ last' = Returned("write_all", w, ok)
  /\ consumed' = [consumed EXCEPT ![w] = IF ok THEN @ \o b ELSE @]
  /\ clean' = [clean EXCEPT ![w] = @ /\ ok /\ b # <<>>]
  /\ UNCHANGED <<alphabet, kind, state, pc, arg, buf, lsc, lock, stdout, outBy, span>>

\* write_all, ErrorsAndWarnings arm, lines 84-87: the call is made and the thread
\* gets the stdout lock (it waits until the lock is granted)
write_all_lock(w, b) ==
  /\ pc[w] = "idle"
  /\ kind[w] = "ErrorsAndWarnings"
  /\ lock_granted(w)
  /\ Called(w, b)
  /\ lock' = w
  /\ arg' = [arg EXCEPT ![w] = b]
  /\ buf' = [buf EXCEPT ![w] = b]
  /\ pc' = [pc EXCEPT ![w] = "prefix"]
  /\ span' = [span EXCEPT ![w] = <<Len(stdout), Len(stdout)>>]
  /\ last' = NoCall
  /\ UNCHANGED <<alphabet, kind, state, lsc, stdout, outBy, errVars, consumed, clean, leftFails>>

\* Mutant: the last byte is looked at, and the state set, before the prefix is written.
write_all_prefix_state_first(w, ok) ==
  /\ pc[w] = "prefix"
  /\ ok \in Outcomes(prefix(state[w]))
  /\ Count(ok)
  /\ state' = [state EXCEPT ![w] = last_char(buf[w]).state]
  /\ IF ok
     THEN /\ EmitInCall(w, prefix(state[w]))
          /\ buf' = [buf EXCEPT ![w] = last_char(buf[w]).buf]
          /\ pc' = [pc EXCEPT ![w] = "first"]
          /\ last' = NoCall
          /\ UNCHANGED <<arg, lsc, lock, consumed, clean>>
     ELSE /\ \E k \in Refused(prefix(state[w]), StdoutBufferSize) :
               EmitInCall(w, Take(prefix(state[w]), k))
          /\ Return(w, FALSE)
  /\ UNCHANGED <<alphabet, kind, errVars, callVars>>

\* lines 90-122: the prefix for the state, then the last byte is looked at
write_all_prefix(w, ok) ==
  /\ pc[w] = "prefix"
  /\ ok \in Outcomes(prefix(state[w]))
  /\ Count(ok)
  /\ IF ok
     THEN /\ EmitInCall(w, prefix(state[w]))
          /\ state' = [state EXCEPT ![w] = last_char(buf[w]).state]
          /\ buf' = [buf EXCEPT ![w] = last_char(buf[w]).buf]
          /\ pc' = [pc EXCEPT ![w] = "first"]
          /\ last' = NoCall
          /\ UNCHANGED <<arg, lsc, lock, consumed, clean>>
     ELSE /\ \E k \in Refused(prefix(state[w]), StdoutBufferSize) :
               EmitInCall(w, Take(prefix(state[w]), k))
          /\ Return(w, FALSE)
          /\ UNCHANGED state
  /\ UNCHANGED <<alphabet, kind, errVars, callVars>>

\* Mutant: the result of the write at lines 126/134 is dropped and the call goes on.
write_all_first_ignores(w, ok) ==
  /\ pc[w] = "first"
  /\ LET pos == position(buf[w])
         run == IF pos >= 0 THEN Take(buf[w], pos) ELSE buf[w]
     IN /\ ok \in Outcomes(run)
        /\ Count(ok)
        /\ \E k \in (IF ok THEN {Len(run)} ELSE Refused(run, StdoutBufferSize)) :
             EmitInCall(w, Take(run, k))
        /\ IF pos >= 0
           THEN /\ lsc' = [lsc EXCEPT ![w] = buf[w][pos + 1]]
                /\ buf' = [buf EXCEPT ![w] = Skip(buf[w], pos + 1)]
                /\ pc' = [pc EXCEPT ![w] = "loop"]
                /\ last' = NoCall
                /\ UNCHANGED <<arg, lock, consumed, clean>>
           ELSE Return(w, TRUE)
  /\ UNCHANGED <<alphabet, kind, state, errVars, callVars>>

\* lines 124-137: the bytes before the first special byte, or the whole slice
write_all_first(w, ok) ==
  /\ pc[w] = "first"
  /\ LET pos == position(buf[w])
         run == IF pos >= 0 THEN Take(buf[w], pos) ELSE buf[w]
     IN /\ ok \in Outcomes(run)
        /\ Count(ok)
        /\ IF ~ok
           THEN /\ \E k \in Refused(run, StdoutBufferSize) : EmitInCall(w, Take(run, k))
                /\ Return(w, FALSE)
           ELSE /\ EmitInCall(w, run)
                /\ IF pos >= 0
                   THEN /\ lsc' = [lsc EXCEPT ![w] = buf[w][pos + 1]]
                        /\ buf' = [buf EXCEPT ![w] = Skip(buf[w], pos + 1)]
                        /\ pc' = [pc EXCEPT ![w] = "loop"]
                        /\ last' = NoCall
                        /\ UNCHANGED <<arg, lock, consumed, clean>>
                   ELSE Return(w, TRUE)
  /\ UNCHANGED <<alphabet, kind, state, errVars, callVars>>

\* line 140, the first write of an iteration of the scan loop: the escape of
\* last_special_char
write_all_loop(w, ok) ==
  /\ pc[w] = "loop"
  /\ LET esc == escape_special(lsc[w])
     IN /\ ok \in Outcomes(esc)
        /\ Count(ok)
        /\ IF ~ok
           THEN /\ \E k \in Refused(esc, StdoutBufferSize) : EmitInCall(w, Take(esc, k))
                /\ Return(w, FALSE)
           ELSE /\ EmitInCall(w, esc)
                /\ pc' = [pc EXCEPT ![w] = "run"]
                /\ last' = NoCall
                /\ UNCHANGED <<arg, buf, lsc, lock, consumed, clean>>
  /\ UNCHANGED <<alphabet, kind, state, errVars, callVars>>

\* lines 142-153, the rest of the iteration: the bytes up to the next special byte,
\* and the loop goes on from it, or the rest of the slice, and the loop ends
write_all_run(w, ok) ==
  /\ pc[w] = "run"
  /\ LET pos == position(buf[w])
         run == IF pos >= 0 THEN Take(buf[w], pos) ELSE buf[w]
     IN /\ ok \in Outcomes(run)
        /\ Count(ok)
        /\ IF ~ok
           THEN /\ \E k \in Refused(run, StdoutBufferSize) : EmitInCall(w, Take(run, k))
                /\ Return(w, FALSE)
           ELSE /\ EmitInCall(w, run)
                /\ IF pos >= 0
                   THEN /\ lsc' = [lsc EXCEPT ![w] = buf[w][pos + 1]]
                        /\ buf' = [buf EXCEPT ![w] = Skip(buf[w], pos + 1)]
                        /\ pc' = [pc EXCEPT ![w] = "loop"]
                        /\ last' = NoCall
                        /\ UNCHANGED <<arg, lock, consumed, clean>>
                   ELSE Return(w, TRUE)
  /\ UNCHANGED <<alphabet, kind, state, errVars, callVars>>

\* Mutant: flush also writes out the held-back byte and forgets it.
flush_finishing(w, ok) ==
  /\ pc[w] = "idle"
  /\ kind[w] # "none"
  /\ kind[w] = "ErrorsAndWarnings" => lock = 0
  /\ ok \in (IF leftFails > 0 THEN BOOLEAN ELSE {TRUE})
  /\ Count(ok)
  /\ last' = Returned("flush", w, ok)
  /\ IF ok /\ state[w].tag = "LastCharWasSpecial"
     THEN /\ Emit(w, <<state[w].ch>>)
          /\ state' = [state EXCEPT ![w] = StNormal]
     ELSE UNCHANGED <<state, stdout, outBy>>
  /\ UNCHANGED <<alphabet, kind, pc, arg, buf, lsc, lock, errVars, consumed, clean, span,
                 callVars>>

\* Write::flush (lines 74-79): forwards to the stream's flush, which takes the
\* stream's lock for its duration.
flush(w, ok) ==
  /\ pc[w] = "idle"
  /\ kind[w] # "none"
  /\ kind[w] = "ErrorsAndWarnings" => lock = 0
  /\ ok \in (IF leftFails > 0 THEN BOOLEAN ELSE {TRUE})
  /\ Count(ok)
  /\ last' = Returned("flush", w, ok)
  /\ UNCHANGED <<alphabet, kind, state, pc, arg, buf, lsc, lock, stdout, outBy, errVars,
                 consumed, clean, span, callVars>>

\* Drop for BuildScriptWriter (lines 58-66): a held-back byte is written as it is,
\* by stdout's own write (which takes the lock), and the result is ignored.
drop(w, ok) ==
  /\ pc[w] = "idle"
  /\ pc' = [pc EXCEPT ![w] = "dropped"]
  /\ last' = Returned("drop", w, TRUE)
  /\ IF kind[w] = "ErrorsAndWarnings" /\ state[w].tag = "LastCharWasSpecial"
     THEN /\ lock = 0
          /\ ok \in Outcomes(drop_write(state[w].ch))
          /\ Count(ok)
          /\ clean' = [clean EXCEPT ![w] = @ /\ ok]
          /\ IF ok THEN Emit(w, drop_write(state[w].ch)) ELSE UNCHANGED <<stdout, outBy>>
     ELSE /\ ok
          /\ UNCHANGED <<stdout, outBy, leftFails, clean>>
  /\ UNCHANGED <<alphabet, kind, state, arg, buf, lsc, lock, errVars, consumed, span, callVars>>

\* The write, flush and drop steps of the threads.
Use ==
  \/ \E w \in Writers, b \in Buffers(leftBytes), ok \in BOOLEAN :
       /\ ok \in Outcomes(b)
       /\ write_all_informational(w, b, ok)
  \/ \E w \in Writers, b \in Buffers(leftBytes) : write_all_lock(w, b)
  \/ \E w \in Writers, ok \in BOOLEAN : write_all_prefix(w, ok)
  \/ \E w \in Writers, ok \in BOOLEAN : write_all_first(w, ok)
  \/ \E w \in Writers, ok \in BOOLEAN : write_all_loop(w, ok)
  \/ \E w \in Writers, ok \in BOOLEAN : write_all_run(w, ok)
  \/ \E w \in Writers, ok \in BOOLEAN : flush(w, ok)
  \/ \E w \in Writers, ok \in BOOLEAN : drop(w, ok)

\* No other writer is alive: the thread makes, uses and drops one writer per event.
Alone(w) == \A v \in Writers \ {w} : pc[v] \in {"new", "dropped"}

\* One thread: an event's writer is made once the previous event's writer is dropped.
Next ==
  \/ \E w \in Writers, lvl \in Levels : Alone(w) /\ make_writer_for(w, lvl)
  \/ \E w \in Writers : Alone(w) /\ make_writer(w)
  \/ Use

\* One thread per writer.
NextConc ==
  \/ \E w \in Writers, lvl \in Levels : make_writer_for(w, lvl)
  \/ \E w \in Writers : make_writer(w)
  \/ Use

Spec == Init /\ [][Next]_vars
SpecOk == InitOk /\ [][Next]_vars
SpecConc == InitConc /\ [][NextConc]_vars
SpecText == InitText /\ [][Next]_vars

\* A step of the thread that is inside write_all on w (lines 87-157).
InCall(w) ==
  \/ \E ok \in BOOLEAN : write_all_prefix(w, ok)
  \/ \E ok \in BOOLEAN : write_all_first(w, ok)
  \/ \E ok \in BOOLEAN : write_all_loop(w, ok)
  \/ \E ok \in BOOLEAN : write_all_run(w, ok)

\* One thread per writer; a thread inside write_all keeps running, each underlying
\* write returning (accepted or refused).
SpecLive == InitLive /\ [][NextConc]_vars /\ \A w \in Writers : WF_vars(InCall(w))

TypeOK ==
  /\ lock \in Writers \cup {0}
  /\ alphabet \in {InputBytes, TextInput}
  /\ Len(stdout) = Len(outBy)
  /\ Len(stderr) = Len(errBy)

\* ------------------------------------------------------------------ observations

\* The elements of `bytes` at the positions where `by` names w, in order.
Of(bytes, by, w) ==
  LET at == SelectSeq([i \in 1..Len(by) |-> i], LAMBDA i : by[i] = w)
  IN [k \in 1..Len(at) |-> bytes[at[k]]]

\* The bytes writer w put on stdout / on stderr.
OutOf(w) == Of(stdout, outBy, w)
ErrOf(w) == Of(stderr, errBy, w)

IsPrefix(p, s) == Len(p) <= Len(s) /\ SubSeq(s, 1, Len(p)) = p
\* The positions at which p occurs in s.
Occurrences(p, s) ==
  {i \in 1..(Len(s) - Len(p) + 1) : s[i] = p[1] /\ SubSeq(s, i, i + Len(p) - 1) = p}
Front(s) == SubSeq(s, 1, Len(s) - 1)
Final(s) == s[Len(s)]

ErrWarn == {w \in Writers : kind[w] = "ErrorsAndWarnings"}

\* A record was sent through w: one or more write_all calls, each with a non-empty
\* buffer and each returning Ok, then drop, every underlying write accepted.
Delivered(w) ==
  /\ kind[w] = "ErrorsAndWarnings"
  /\ pc[w] = "dropped"
  /\ calls[w] >= 1
  /\ clean[w]

\* ------------------------------------------------------------------ claims

\* C1. Chunk-invariance: a record delivered in any number of non-empty chunks puts
\* the same bytes on stdout as the same record delivered in one write call.
ChunkInvariance ==
  \A w, u \in Writers :
    (Delivered(w) /\ Delivered(u) /\ calls[u] = 1 /\ consumed[w] = consumed[u])
      => OutOf(w) = OutOf(u)

\* A record whose first chunk ends in a line-feed that more bytes follow, and the
\* same record in one call.
ChunkInvarianceWitness ==
  \E w, u \in Writers :
    /\ Delivered(w) /\ Delivered(u)
    /\ calls[w] = 2 /\ calls[u] = 1
    /\ consumed[w] = <<LF, 97>> /\ consumed[u] = <<LF, 97>>

\* The record as the consumer is to see it: every line break but a final one escaped.
RECURSIVE Escaped(_)
Escaped(s) ==
  IF s = <<>> THEN <<>>
  ELSE (IF Head(s) = LF THEN <<92, 110>>
        ELSE IF Head(s) = CR THEN <<92, 114>>
        ELSE <<Head(s)>>) \o Escaped(Tail(s))

\* C2. Exact output: a delivered non-empty record M is on stdout as the marker, then
\* M without its last byte with LF and CR escaped, then the last byte of M as it is.
ExactOutput ==
  \A w \in Writers :
    Delivered(w) /\ consumed[w] # <<>>
      => OutOf(w) = MARKER \o Escaped(Front(consumed[w])) \o <<Final(consumed[w])>>

\* A record with both line breaks inside and a line-feed at the end, in several chunks.
ExactOutputWitness ==
  \E w \in Writers :
    /\ Delivered(w)
    /\ calls[w] >= 2
    /\ consumed[w] = <<97, CR, LF, LF>>

\* C3. Marker-once: whatever calls were made on a writer and however they ended,
\* its output holds the marker at most once and starts with it; once a byte is
\* consumed, the marker is there exactly once, at the start.
MarkerOnce ==
  \A w \in ErrWarn :
    LET out == OutOf(w)
        occ == Occurrences(MARKER, out)
    IN /\ Cardinality(occ) <= 1
       /\ out # <<>> => IsPrefix(MARKER, out)
       /\ consumed[w] # <<>> => occ = {1}

\* A writer with a call that failed and two calls that consumed bytes.
MarkerOnceWitness ==
  \E w \in ErrWarn :
    /\ calls[w] = 3
    /\ offered[w] > Len(consumed[w])
    /\ Len(consumed[w]) = 2
    /\ pc[w] = "dropped"

\* C4. A zero-byte record emits no marker: a writer that was given no byte (no call,
\* or only calls with an empty buffer) and is dropped has put nothing on stdout.
ZeroByteRecordEmitsNothing ==
  \A w \in ErrWarn :
    pc[w] = "dropped" /\ offered[w] = 0 => OutOf(w) = <<>>

\* C5. Terminal-linebreak preservation: of a delivered record that ends in a
\* line-feed, that line-feed is the last byte on stdout, raw; no other byte of the
\* output is a raw line break, and every earlier LF and CR is there as its escape.
TerminalLinebreak ==
  \A w \in Writers :
    Delivered(w) /\ consumed[w] # <<>> /\ Final(consumed[w]) = LF
      => LET out == OutOf(w)
             body == Front(consumed[w])
         IN /\ out # <<>>
            /\ Final(out) = LF
            /\ \A i \in 1..(Len(out) - 1) : ~(out[i] \in {LF, CR})
            /\ Cardinality(Occurrences(<<92, 110>>, out))
                 = Cardinality({i \in 1..Len(body) : body[i] = LF})
            /\ Cardinality(Occurrences(<<92, 114>>, out))
                 = Cardinality({i \in 1..Len(body) : body[i] = CR})

\* A record with a line-feed right before the final line-feed, split between them.
TerminalLinebreakWitness ==
  \E w \in Writers :
    /\ Delivered(w)
    /\ calls[w] = 2
    /\ consumed[w] = <<CR, LF, LF>>

\* No writer is alive.
Quiet == \A w \in Writers : pc[w] \in {"new", "dropped"}
\* The records sent so far.
Records == {w \in ErrWarn : calls[w] >= 1}
\* The lines of stdout (split at raw line-feeds) that start with the marker, by the
\* position of their first byte.
MarkerLines == {i \in Occurrences(MARKER, stdout) : i = 1 \/ stdout[i - 1] = LF}

\* C6. No false splits: once every record was delivered and dropped, stdout has
\* exactly one line starting with the marker per record.
NoFalseSplits ==
  (Quiet /\ \A w \in Records : Delivered(w))
    => Cardinality(MarkerLines) = Cardinality(Records)

\* C6, amended: the same, for records that each end in a line-feed.
NoFalseSplitsTerminated ==
  (Quiet /\ \A w \in Records : Delivered(w) /\ Final(consumed[w]) = LF)
    => Cardinality(MarkerLines) = Cardinality(Records)

\* Two records with line breaks inside, each ending in a line-feed.
NoFalseSplitsWitness ==
  /\ Quiet
  /\ Records = {1, 2}
  /\ Delivered(1) /\ consumed[1] = <<LF, LF>>
  /\ Delivered(2) /\ consumed[2] = <<CR, LF>>

\* C7. Concurrent records are never garbled: the bytes of a delivered record are
\* one contiguous stretch of stdout.
RecordsContiguous ==
  \A w \in Writers :
    Delivered(w) =>
      \A i, k \in 1..Len(outBy) :
        (i < k /\ outBy[i] = w /\ outBy[k] = w) => \A j \in i..k : outBy[j] = w

\* C8. Per-call atomicity: the bytes one write_all call puts on stdout are
\* contiguous, and while the call runs no other writer's byte follows them.
PerCallAtomic ==
  \A w \in ErrWarn :
    /\ \A i \in (span[w][1] + 1)..span[w][2] : outBy[i] = w
    /\ lock = w => Len(stdout) = span[w][2]

\* A call in its scan loop, two writes done, beside a writer that has written.
PerCallAtomicWitness ==
  \E w, v \in ErrWarn :
    /\ w # v
    /\ pc[w] = "loop" /\ lock = w
    /\ span[w][2] > span[w][1]
    /\ pc[v] = "idle" /\ OutOf(v) # <<>>

\* C9. Channel selection: make_writer_for gives an errors_and_warnings writer, in
\* state Init, exactly for WARN and ERROR and an informational writer for TRACE,
\* DEBUG and INFO, whatever happened before; make_writer gives an informational one.
ChannelSelection ==
  /\ last.op = "make_writer_for" =>
       /\ last.level \in {"WARN", "ERROR"}
            => kind[last.w] = "ErrorsAndWarnings" /\ state[last.w] = StInit
       /\ last.level \in {"TRACE", "DEBUG", "INFO"} => kind[last.w] = "Informational"
       /\ pc[last.w] = "idle"
  /\ last.op = "make_writer" => kind[last.w] = "Informational" /\ pc[last.w] = "idle"

\* A writer made for WARN after an earlier writer has put a record on stdout.
ChannelSelectionWitness ==
  /\ last.op = "make_writer_for"
  /\ last.level = "WARN"
  /\ last.w = 2
  /\ stdout # <<>>

\* C10. Plain channel: what an informational writer puts on stderr is the
\* concatenation of its buffers, no call having failed; it holds no byte back,
\* writes nothing at drop and nothing to stdout.
PlainPassThrough ==
  \A w \in Writers :
    kind[w] = "Informational" =>
      /\ OutOf(w) = <<>>
      /\ state[w] = NoState
      /\ offered[w] = Len(consumed[w]) => ErrOf(w) = consumed[w]

\* A dropped informational writer that was given line breaks in two calls.
PlainPassThroughWitness ==
  \E w \in Writers :
    /\ kind[w] = "Informational"
    /\ pc[w] = "dropped"
    /\ calls[w] = 2
    /\ consumed[w] = <<LF, CR, 97>>

\* ------------------------------------------------------------------ C11

\* The bytes of s that are not line breaks, in order.
Plain(s) == SelectSeq(s, LAMBDA ch : ch # LF /\ ch # CR)

\* s without its marker.
Body(s) == IF IsPrefix(MARKER, s) THEN SubSeq(s, Len(MARKER) + 1, Len(s)) ELSE s

\* s without the two-byte escapes backslash+'n' and backslash+'r'.
RECURSIVE Unescaped(_)
Unescaped(s) ==
  IF s = <<>> THEN <<>>
  ELSE IF Len(s) >= 2 /\ s[1] = 92 /\ s[2] \in {110, 114}
       THEN Unescaped(SubSeq(s, 3, Len(s)))
       ELSE <<s[1]>> \o Unescaped(SubSeq(s, 2, Len(s)))

\* C11. Between calls and after drop, the bytes an ErrorsAndWarnings writer put on
\* stdout after its marker are, escapes and line breaks set aside, exactly the
\* consumed bytes other than LF and CR (NUL, tab, double-quote and backslash among
\* them), each once, unchanged and in order; beyond them stdout holds only two
\* bytes per escaped line break and the one byte drop wrote.
OrdinaryBytesUntouched ==
  \A w \in ErrWarn :
    pc[w] \in {"idle", "dropped"} =>
      LET body == Body(OutOf(w))
          plain == Plain(consumed[w])
          breaks == Len(consumed[w]) - Len(plain)
          held == IF state[w].tag = "LastCharWasSpecial" THEN 1 ELSE 0
      IN /\ Plain(Unescaped(body)) = plain
         /\ Len(body) = Len(plain) + 2 * (breaks - held)
                          + (IF pc[w] = "dropped" THEN held ELSE 0)

\* A writer consumed backslash, line-feed, and then double-quote in a second call.
OrdinaryBytesUntouchedWitness ==
  \E w \in ErrWarn :
    /\ pc[w] = "idle"
    /\ calls[w] = 2
    /\ consumed[w] = <<92, LF, 34>>
    /\ OutOf(w) = MARKER \o <<92, 92, 110, 34>>

\* ------------------------------------------------------------------ C12

\* C12. The step that drops an ErrorsAndWarnings writer appends to stdout exactly
\* the held-back byte, as it is, when the state is LastCharWasSpecial(ch) and the
\* stream accepts the write; it appends nothing in state Init or Normal, and nothing
\* when the stream refuses the write.  In every case drop ends without an error.
DropWritesHeldByte ==
  [][\A w \in ErrWarn :
       (pc[w] = "idle" /\ pc'[w] = "dropped") =>
         /\ last' = Returned("drop", w, TRUE)
         /\ state'[w] = state[w]
         /\ IF state[w].tag = "LastCharWasSpecial" /\ leftFails' = leftFails
            THEN /\ stdout' = stdout \o <<state[w].ch>>
                 /\ outBy' = outBy \o <<w>>
            ELSE /\ stdout' = stdout
                 /\ outBy' = outBy]_vars

\* A writer that consumed one carriage-return was dropped: the marker, then the raw byte.
DropWritesHeldByteWitness ==
  \E w \in ErrWarn :
    /\ pc[w] = "dropped"
    /\ state[w] = LastCharWasSpecial(CR)
    /\ consumed[w] = <<CR>>
    /\ OutOf(w) = MARKER \o <<CR>>

\* ------------------------------------------------------------------ C13

\* C13. A step of write_all on an ErrorsAndWarnings writer in which an underlying
\* write is refused ends the call at once: write_all returns Err, the lock is
\* released and the buffer is not counted as consumed.  stdout is only appended to,
\* by what the stream took of the refused slice before it stopped: nothing of the
\* marker or of an escape, a shorter part of a run of the buffer at most.  Nothing
\* already on stdout is written again.  write_all returns Err only so.
FailedWriteFailsCall ==
  [][\A w \in ErrWarn :
       /\ (pc[w] \in {"prefix", "first", "loop", "run"} /\ leftFails' < leftFails) =>
            /\ pc'[w] = "idle"
            /\ lock' = 0
            /\ last' = Returned("write_all", w, FALSE)
            /\ consumed'[w] = consumed[w]
            /\ IsPrefix(stdout, stdout')
            /\ LET taken == SubSeq(stdout', Len(stdout) + 1, Len(stdout'))
               IN \/ taken = <<>>
                  \/ /\ pc[w] \in {"first", "run"}
                     /\ IsPrefix(taken, buf[w])
                     /\ Len(taken) < Len(buf[w])
       /\ (pc[w] # "idle" /\ last' = Returned("write_all", w, FALSE)) =>
            leftFails' < leftFails]_vars

\* A first call whose buffer starts with a line-feed failed in the scan loop, on the
\* write after the escape: the marker and the escape are out, nothing is consumed.
FailedWriteFailsCallWitness ==
  /\ last.op = "write_all"
  /\ ~last.ok
  /\ pc[last.w] = "idle"
  /\ lock = 0
  /\ calls[last.w] = 1
  /\ consumed[last.w] = <<>>
  /\ OutOf(last.w) = MARKER \o <<92, 110>>

\* ------------------------------------------------------------------ C14

\* The consumed bytes of w that its stdout bytes do not represent yet, by the state.
Withheld(w) == IF state[w].tag = "LastCharWasSpecial" THEN 1 ELSE 0

\* Between calls, when no call with bytes has failed: stdout holds the marker and the
\* escaped form of all consumed bytes but the withheld ones; a withheld byte is the
\* last consumed byte, LF or CR, and the one the state names; state Init means that
\* nothing was consumed or written.
WithheldByState(w) ==
  (pc[w] = "idle" /\ offered[w] = Len(consumed[w])) =>
    LET shown == SubSeq(consumed[w], 1, Len(consumed[w]) - Withheld(w))
    IN /\ state[w].tag = "Init" => consumed[w] = <<>> /\ OutOf(w) = <<>>
       /\ state[w].tag # "Init" => OutOf(w) = MARKER \o Escaped(shown)
       /\ state[w].tag = "LastCharWasSpecial" =>
            /\ consumed[w] # <<>>
            /\ state[w].ch = Final(consumed[w])
            /\ state[w].ch \in {LF, CR}

\* The step in which write_all returns Ok, whatever happened in earlier calls: the state
\* is LastCharWasSpecial(b) exactly when the buffer was non-empty and ended in the
\* line break b, and the call wrote its prefix and then the escaped form of the buffer
\* without that byte; otherwise the state is Normal and the whole buffer was written.
WithheldAfterCall(w) ==
  (pc[w] \in {"first", "run"} /\ last' = Returned("write_all", w, TRUE)) =>
    LET held == arg[w] # <<>> /\ Final(arg[w]) \in {LF, CR}
        body == Escaped(IF held THEN Front(arg[w]) ELSE arg[w])
        written == SubSeq(stdout', span[w][1] + 1, Len(stdout'))
        before == Len(written) - Len(body)
    IN /\ state'[w] = IF held THEN LastCharWasSpecial(Final(arg[w])) ELSE StNormal
       /\ before >= 0
       /\ SubSeq(written, before + 1, Len(written)) = body
       /\ SubSeq(written, 1, before) \in {<<>>, MARKER, <<92, 110>>, <<92, 114>>}

\* C14. After every write call that returns Ok the writer withholds one consumed
\* byte when its state is LastCharWasSpecial(b), namely b, the line break that ended
\* the most recent non-empty buffer, and none when its state is Normal (or Init); a
\* state other than Init is never followed by Init.
AtMostOneByteWithheld ==
  [][\A w \in ErrWarn :
       /\ WithheldByState(w)'
       /\ WithheldAfterCall(w)
       /\ state[w].tag # "Init" => state'[w].tag # "Init"]_vars

\* A writer between calls holds back the carriage-return that ended its second buffer;
\* the line-feed that ended the first one is out, escaped.
AtMostOneByteWithheldWitness ==
  \E w \in ErrWarn :
    /\ pc[w] = "idle"
    /\ last = Returned("write_all", w, TRUE)
    /\ calls[w] = 2
    /\ state[w] = LastCharWasSpecial(CR)
    /\ consumed[w] = <<97, LF, CR>>
    /\ OutOf(w) = MARKER \o <<97, 92, 110>>

\* ------------------------------------------------------------------ C15

\* The positions of s that hold a raw line break.
RawBreaks(s) == {i \in 1..Len(s) : s[i] \in {LF, CR}}

\* C15. Whatever calls were made on an ErrorsAndWarnings writer and whichever of them
\* failed, the bytes it put on stdout hold no raw LF or CR as long as it is not
\* dropped; once it is dropped they hold at most one, as their last byte, and only
\* when drop found the state LastCharWasSpecial with that byte.
NoRawBreakBeforeDrop ==
  \A w \in ErrWarn :
    LET out == OutOf(w)
    IN IF pc[w] # "dropped"
       THEN RawBreaks(out) = {}
       ELSE \/ RawBreaks(out) = {}
            \/ /\ RawBreaks(out) = {Len(out)}
               /\ state[w] = LastCharWasSpecial(Final(out))

\* A writer between calls, one of its calls failed, consumed both line breaks and
\* holds one back.
NoRawBreakBeforeDropWitness ==
  \E w \in ErrWarn :
    /\ pc[w] = "idle"
    /\ offered[w] > Len(consumed[w])
    /\ consumed[w] = <<CR, LF>>
    /\ state[w] = LastCharWasSpecial(LF)
    /\ OutOf(w) = MARKER \o <<92, 114>>

\* ------------------------------------------------------------------ C16

\* C16. A thread holds the stdout lock only while it is inside write_all, and every
\* call that got the lock returns, whether on the normal path, the fast path or
\* with an error, with the lock free again for whoever waits for it.
LockReleased ==
  /\ [](\A w \in Writers : lock = w => pc[w] \in {"prefix", "first", "loop", "run"})
  /\ \A w \in Writers : (lock = w) ~> (lock = 0 /\ pc[w] = "idle")

\* One writer's call failed and returned; the other thread then got the lock, wrote
\* its marker and holds back the line-feed of its buffer.
LockReleasedWitness ==
  \E w, v \in ErrWarn :
    /\ w # v
    /\ pc[w] = "idle"
    /\ offered[w] > Len(consumed[w])
    /\ lock = v
    /\ pc[v] = "first"
    /\ state[v] = LastCharWasSpecial(LF)

\* ------------------------------------------------------------------ C17

\* C17. Every byte escape_special is called with is LF or CR: the byte of a
\* LastCharWasSpecial state (line 95) and last_special_char of the scan loop
\* (line 140).  Its unreachable!() arm is never taken.
EscapeSpecialDefined ==
  \A w \in ErrWarn :
    /\ state[w].tag = "LastCharWasSpecial" => state[w].ch \in {LF, CR}
    /\ pc[w] = "loop" => lsc[w] \in {LF, CR}

\* A call is in the scan loop about to escape a carriage-return, with the line-feed
\* that ended its buffer held back.
EscapeSpecialDefinedWitness ==
  \E w \in ErrWarn :
    /\ pc[w] = "loop"
    /\ lsc[w] = CR
    /\ state[w] = LastCharWasSpecial(LF)

\* ------------------------------------------------------------------ C18

\* C18. A flush step, accepted or refused by the stream, leaves every writer's state
\* and position and both streams' bytes as they were: it writes neither the marker
\* nor a held-back byte, which stays held back for drop or for the next write_all.
FlushLeavesWriterUntouched ==
  [][last'.op = "flush" =>
       /\ state' = state
       /\ pc' = pc
       /\ stdout' = stdout /\ outBy' = outBy
       /\ stderr' = stderr /\ errBy' = errBy
       /\ consumed' = consumed]_vars

\* flush returned on a writer that holds back a line-feed: its stdout bytes are the
\* marker and 'a', the line-feed is still to come.
FlushLeavesWriterUntouchedWitness ==
  /\ last.op = "flush"
  /\ last.w \in ErrWarn
  /\ state[last.w] = LastCharWasSpecial(LF)
  /\ consumed[last.w] = <<97, LF>>
  /\ OutOf(last.w) = MARKER \o <<97>>

\* ------------------------------------------------------------------ C19

\* C19. A write_all call with an empty buffer that finds the state
\* LastCharWasSpecial(ch) writes the escape of ch and turns the state to Normal; one
\* that finds the state Normal writes nothing and leaves it Normal; the call then
\* returns Ok without another byte, and drop in state Normal writes nothing, so ch
\* never reaches stdout as it is.
EmptyWriteResolvesHeld ==
  [][\A w \in ErrWarn :
       /\ (pc[w] = "prefix" /\ arg[w] = <<>> /\ pc'[w] = "first") =>
            /\ state[w].tag # "Init" => state'[w] = StNormal
            /\ state[w].tag = "LastCharWasSpecial" =>
                 stdout' = stdout \o (IF state[w].ch = LF THEN <<92, 110>> ELSE <<92, 114>>)
            /\ state[w].tag = "Normal" => stdout' = stdout
       /\ (pc[w] = "first" /\ arg[w] = <<>>) =>
            /\ last' = Returned("write_all", w, TRUE)
            /\ state'[w] = state[w]
            /\ stdout' = stdout
       /\ (pc[w] = "idle" /\ pc'[w] = "dropped" /\ state[w] = StNormal) =>
            stdout' = stdout]_vars

\* A writer took a line-feed, then an empty buffer, and was dropped: the marker and
\* the escape are on stdout, no raw line-feed.
EmptyWriteResolvesHeldWitness ==
  \E w \in ErrWarn :
    /\ pc[w] = "dropped"
    /\ calls[w] = 2
    /\ state[w] = StNormal
    /\ consumed[w] = <<LF>>
    /\ OutOf(w) = MARKER \o <<92, 110>>

\* ------------------------------------------------------------------ C20

\* C20. When the write of the marker (state Init) or of the held-back byte's escape
\* (state LastCharWasSpecial) is refused, write_all returns Err with the state as it
\* was, nothing written and nothing of the buffer consumed.  The prefix a call
\* writes depends on the state alone, so the next call writes the same marker or
\* escape again, and drop still finds the held-back byte.
PrefixFailureKeepsState ==
  [][\A w \in ErrWarn :
       /\ (pc[w] = "prefix" /\ leftFails' < leftFails) =>
            /\ last' = Returned("write_all", w, FALSE)
            /\ pc'[w] = "idle"
            /\ state'[w] = state[w]
            /\ state[w].tag \in {"Init", "LastCharWasSpecial"}
            /\ consumed'[w] = consumed[w]
            /\ stdout' = stdout
       /\ (pc[w] = "prefix" /\ pc'[w] = "first") =>
            stdout' = stdout \o
              (CASE state[w].tag = "Init" -> MARKER
                 [] state[w].tag = "Normal" -> <<>>
                 [] state[w] = LastCharWasSpecial(LF) -> <<92, 110>>
                 [] state[w] = LastCharWasSpecial(CR) -> <<92, 114>>)]_vars

\* The second call on a writer holding back a line-feed failed on the escape: the
\* state still holds the line-feed and stdout has the marker alone.
PrefixFailureKeepsStateWitness ==
  /\ last.op = "write_all"
  /\ ~last.ok
  /\ last.w \in ErrWarn
  /\ calls[last.w] = 2
  /\ state[last.w] = LastCharWasSpecial(LF)
  /\ consumed[last.w] = <<LF>>
  /\ OutOf(last.w) = MARKER

====
